---- MODULE Spec2Model ----
(***************************************************************************)
(* Model of aikit::fsm::FSM (include/cppaikit/fsm/FSM.hpp) driven by a     *)
(* host that calls its public operations one after the other.              *)
(*                                                                         *)
(* Identifiers (TId) are the integers 1..NumIds.  A state object owned by  *)
(* the store is named by the number it got when it was allocated; every    *)
(* successful insertion allocates one map node and one state object, so    *)
(* the same number names both.  A StateRef holds a pointer to the key of   *)
(* a node and a pointer to the state of that node; the null pointer is 0.  *)
(*                                                                         *)
(* The callbacks of State (onEnter, onExit, update) are recorded in the    *)
(* order in which the FSM invokes them.  `last' is the record of the most  *)
(* recent call of a public operation and `prior' the one before it.  Next  *)
(* to each callback the record keeps what the two slots held at the moment *)
(* the callback was invoked (`seen').  `onlyAdds' is TRUE as long as every *)
(* call made so far was addState.                                          *)
(*                                                                         *)
(* A call that violates an assert()ed precondition does not return: with   *)
(* assertions enabled the program is terminated, without them (NDEBUG) its *)
(* behaviour is undefined from that point on.  Either way the model stops  *)
(* there: `aborted' becomes TRUE, the call is recorded with ret = "abort"  *)
(* and no further operation runs.                                          *)
(*                                                                         *)
(* SpecConc is a second specification: two threads share one FSM without   *)
(* any lock; one runs transitionTo(tid), the other removeState(rid), each  *)
(* one source statement at a time (the pc values are the line numbers of   *)
(* FSM.hpp).  The callbacks do not touch the FSM, so their calls are steps *)
(* that change nothing, except that a call through a null pointer crashes  *)
(* and a call through a pointer to a destroyed state either crashes or     *)
(* goes on.                                                                *)
(***************************************************************************)
EXTENDS Integers, Sequences, FiniteSets, TLC

\* ---- bounds ----
NumIds == 3
MaxObjs == 3
MaxData == 2

Ids == 1..NumIds
Data == 1..MaxData

VARIABLES mStates, mCurrentState, mPreviousState, nextObj, aborted, last, prior,
          onlyAdds,
          pcT, tid, tFound,           \* the thread in transitionTo(tid)
          pcR, rid, rFound, rRet,     \* the thread in removeState(rid)
          erasedUnder

\* The variables of the two threads.  erasedUnder records that removeState
\* erased the entry that transitionTo had found and not yet assigned.
concVars == <<pcT, tid, tFound, pcR, rid, rFound, rRet, erasedUnder>>

\* The variables that only the sequential host writes.
hostVars == <<nextObj, last, prior, onlyAdds>>

vars == <<mStates, mCurrentState, mPreviousState, nextObj, aborted, last, prior,
          onlyAdds, concVars>>

\* ---- StateRef ----
\* StateRef{}: id = nullptr, state = nullptr
NullRef == [id |-> 0, state |-> 0]

isSet(ref) == ref.state # 0

\* {&(found->first), found->second.get()}: the reference to the entry of key
\* id in store st
RefTo(st, id) == [id |-> id, state |-> st[id]]

\* A reference is valid when it points into a node that is in the store.
Dangling(st, ref) ==
    /\ ref # NullRef
    /\ ~ (ref.id \in DOMAIN st /\ st[ref.id] = ref.state)

\* ---- the machine as a value: store, slots, callbacks fired, abort flag ----
Machine(st, cur, prev) ==
    [mStates |-> st, cur |-> cur, prev |-> prev, events |-> <<>>,
     seen |-> <<>>, ret |-> "void", aborted |-> FALSE]

Fire(m, name, obj, arg) ==
    [m EXCEPT !.events = Append(@, [cb |-> name, obj |-> obj, arg |-> arg]),
              !.seen = Append(@, [cur |-> m.cur, prev |-> m.prev])]

Abort(m) == [m EXCEPT !.aborted = TRUE, !.ret = "abort"]

\* transitionTo that enters the new state before it leaves the old one.
transitionTo_EnterBeforeExit(m, id) ==
    IF id \notin DOMAIN m.mStates
    THEN Abort(m)
    ELSE LET m1 == Fire(m, "onEnter", m.mStates[id], 0)
             m2 == IF isSet(m.cur)
                   THEN [Fire(m1, "onExit", m.cur.state, 0) EXCEPT !.prev = m.cur]
                   ELSE m1
         IN [m2 EXCEPT !.cur = RefTo(m.mStates, id)]

\* transitionTo that returns early when id is already the current state.
transitionTo_SkipCurrent(m, id) ==
    IF id \notin DOMAIN m.mStates
    THEN Abort(m)
    ELSE IF isSet(m.cur) /\ m.cur.id = id
         THEN m
         ELSE LET m1 == IF isSet(m.cur)
                        THEN [Fire(m, "onExit", m.cur.state, 0) EXCEPT !.prev = m.cur]
                        ELSE m
                  m2 == [m1 EXCEPT !.cur = RefTo(m.mStates, id)]
              IN Fire(m2, "onEnter", m2.cur.state, 0)

\* transitionTo that updates both slots before it calls onExit on the old
\* current state.
transitionTo_SwitchBeforeExit(m, id) ==
    IF id \notin DOMAIN m.mStates
    THEN Abort(m)
    ELSE LET old == m.cur
             m1 == IF isSet(old) THEN [m EXCEPT !.prev = old] ELSE m
             m2 == [m1 EXCEPT !.cur = RefTo(m.mStates, id)]
             m3 == IF isSet(old) THEN Fire(m2, "onExit", old.state, 0) ELSE m2
         IN Fire(m3, "onEnter", m3.cur.state, 0)

\* transitionTo that calls onEnter only inside the `current is set' block.
transitionTo_EnterOnlyAfterExit(m, id) ==
    IF id \notin DOMAIN m.mStates
    THEN Abort(m)
    ELSE LET m1 == IF isSet(m.cur)
                   THEN [Fire(m, "onExit", m.cur.state, 0) EXCEPT !.prev = m.cur]
                   ELSE m
             m2 == [m1 EXCEPT !.cur = RefTo(m.mStates, id)]
         IN IF isSet(m.cur) THEN Fire(m2, "onEnter", m2.cur.state, 0) ELSE m2

\* void transitionTo(const TId& id)
transitionTo(m, id) ==
    IF id \notin DOMAIN m.mStates
    THEN Abort(m)
    ELSE LET m1 == IF isSet(m.cur)
                   THEN [Fire(m, "onExit", m.cur.state, 0) EXCEPT !.prev = m.cur]
                   ELSE m
             m2 == [m1 EXCEPT !.cur = RefTo(m.mStates, id)]
         IN Fire(m2, "onEnter", m2.cur.state, 0)

\* transitionToPreviousState that swaps the two slots itself and calls no
\* callback.
transitionToPreviousState_SilentSwap(m) ==
    IF ~ isSet(m.prev)
    THEN Abort(m)
    ELSE [m EXCEPT !.cur = m.prev, !.prev = m.cur]

\* void transitionToPreviousState(): the argument of transitionTo is the key
\* that mPreviousState.id points to; it lives in the map node, so assigning
\* to mPreviousState inside transitionTo does not change it.
transitionToPreviousState(m) ==
    IF ~ isSet(m.prev)
    THEN Abort(m)
    ELSE transitionTo(m, m.prev.id)

\* setCurrentState that looks the state up with mStates[id]: operator[]
\* inserts an entry with a null state when id is not a key.
setCurrentState_IndexInsert(m, id) ==
    LET st == [k \in DOMAIN m.mStates \cup {id} |->
                 IF k \in DOMAIN m.mStates THEN m.mStates[k] ELSE 0]
        m1 == IF isSet(m.cur) THEN [m EXCEPT !.prev = m.cur] ELSE m
    IN [m1 EXCEPT !.mStates = st, !.cur = RefTo(st, id)]

\* setCurrentState that goes through transitionTo.
setCurrentState_AsTransition(m, id) == transitionTo(m, id)

\* void setCurrentState(const TId& id)
setCurrentState(m, id) ==
    IF id \notin DOMAIN m.mStates
    THEN Abort(m)
    ELSE LET m1 == IF isSet(m.cur) THEN [m EXCEPT !.prev = m.cur] ELSE m
         IN [m1 EXCEPT !.cur = RefTo(m.mStates, id)]

\* update that forwards to the previous state when there is one.
update_ToPrevious(m, updateData) ==
    IF ~ isSet(m.cur)
    THEN Abort(m)
    ELSE Fire(m, "update",
              IF isSet(m.prev) THEN m.prev.state ELSE m.cur.state, updateData)

\* void update(UpdateData_type updateData)
update(m, updateData) ==
    IF ~ isSet(m.cur)
    THEN Abort(m)
    ELSE Fire(m, "update", m.cur.state, updateData)

\* erase whose result is compared with >= 0: always true.
Erase_AlwaysTrue(m, id) ==
    [m EXCEPT !.mStates = [k \in DOMAIN m.mStates \ {id} |-> m.mStates[k]],
              !.ret = "true"]

\* mStates.erase(id) > 0
Erase(m, id) ==
    [m EXCEPT !.mStates = [k \in DOMAIN m.mStates \ {id} |-> m.mStates[k]],
              !.ret = IF id \in DOMAIN m.mStates THEN "true" ELSE "false"]

\* removeState without the branch that clears the previous slot.
removeState_KeepPrevious(m, id) ==
    LET m1 ==
          IF isSet(m.cur) /\ m.cur.id = id
          THEN IF isSet(m.prev)
               THEN IF m.cur.id = m.prev.id /\ m.cur.state = m.prev.state
                    THEN [Fire(m, "onExit", m.cur.state, 0)
                            EXCEPT !.cur = NullRef, !.prev = NullRef]
                    ELSE LET t == transitionToPreviousState(m)
                         IN [t EXCEPT !.prev = t.cur]
               ELSE [m EXCEPT !.cur = NullRef]
          ELSE m
    IN Erase(m1, id)

\* removeState that leaves the previous slot as transitionToPreviousState
\* set it (line 65 missing).
removeState_NoDedup(m, id) ==
    LET m1 ==
          IF isSet(m.cur) /\ m.cur.id = id
          THEN IF isSet(m.prev)
               THEN IF m.cur.id = m.prev.id /\ m.cur.state = m.prev.state
                    THEN [Fire(m, "onExit", m.cur.state, 0)
                            EXCEPT !.cur = NullRef, !.prev = NullRef]
                    ELSE transitionToPreviousState(m)
               ELSE [m EXCEPT !.cur = NullRef]
          ELSE IF isSet(m.prev) /\ m.prev.id = id
               THEN [m EXCEPT !.prev = NullRef]
               ELSE m
    IN Erase(m1, id)

\* removeState that does not tell apart `previous is the current entry'
\* (line 59 missing): it always transitions to the previous state.
removeState_NoSameCheck(m, id) ==
    LET m1 ==
          IF isSet(m.cur) /\ m.cur.id = id
          THEN IF isSet(m.prev)
               THEN LET t == transitionToPreviousState(m)
                    IN [t EXCEPT !.prev = t.cur]
               ELSE [m EXCEPT !.cur = NullRef]
          ELSE IF isSet(m.prev) /\ m.prev.id = id
               THEN [m EXCEPT !.prev = NullRef]
               ELSE m
    IN Erase(m1, id)

\* removeState that calls onExit on the previous state before clearing it.
removeState_ExitPrevious(m, id) ==
    LET m1 ==
          IF isSet(m.cur) /\ m.cur.id = id
          THEN IF isSet(m.prev)
               THEN IF m.cur.id = m.prev.id /\ m.cur.state = m.prev.state
                    THEN [Fire(m, "onExit", m.cur.state, 0)
                            EXCEPT !.cur = NullRef, !.prev = NullRef]
                    ELSE LET t == transitionToPreviousState(m)
                         IN [t EXCEPT !.prev = t.cur]
               ELSE [m EXCEPT !.cur = NullRef]
          ELSE IF isSet(m.prev) /\ m.prev.id = id
               THEN [Fire(m, "onExit", m.prev.state, 0) EXCEPT !.prev = NullRef]
               ELSE m
    IN Erase(m1, id)

\* removeState that only clears the current slot when the current state is
\* removed, whatever the previous slot holds.
removeState_ClearCurrentOnly(m, id) ==
    LET m1 ==
          IF isSet(m.cur) /\ m.cur.id = id
          THEN [Fire(m, "onExit", m.cur.state, 0) EXCEPT !.cur = NullRef]
          ELSE IF isSet(m.prev) /\ m.prev.id = id
               THEN [m EXCEPT !.prev = NullRef]
               ELSE m
    IN Erase(m1, id)

\* bool removeState(const TId& id).  currentStateId() == id compares key
\* values; mCurrentState.id == mPreviousState.id (line 59) compares the
\* addresses of the keys, i.e. whether both slots point into the same node.
removeState(m, id) ==
    LET m1 ==
          IF isSet(m.cur) /\ m.cur.id = id
          THEN IF isSet(m.prev)
               THEN IF m.cur.id = m.prev.id /\ m.cur.state = m.prev.state
                    THEN [Fire(m, "onExit", m.cur.state, 0)
                            EXCEPT !.cur = NullRef, !.prev = NullRef]
                    ELSE LET t == transitionToPreviousState(m)
                         IN [t EXCEPT !.prev = t.cur]
               ELSE [m EXCEPT !.cur = NullRef]
          ELSE IF isSet(m.prev) /\ m.prev.id = id
               THEN [m EXCEPT !.prev = NullRef]
               ELSE m
    IN Erase(m1, id)

\* addState that makes the first state added the current one.
addState_FirstIsCurrent(m, id, obj) ==
    IF id \in DOMAIN m.mStates
    THEN m
    ELSE LET st == [k \in DOMAIN m.mStates \cup {id} |->
                      IF k = id THEN obj ELSE m.mStates[k]]
         IN [m EXCEPT !.mStates = st,
                      !.cur = IF DOMAIN m.mStates = {} THEN RefTo(st, id)
                                                       ELSE m.cur]

\* addState with insert_or_assign in place of try_emplace.
addState_Assign(m, id, obj) ==
    [m EXCEPT !.mStates = [k \in DOMAIN m.mStates \cup {id} |->
                             IF k = id THEN obj ELSE m.mStates[k]]]

\* void addState(TId id, TNewState&& state): obj is the object made by
\* make_unique; try_emplace keeps it only when id is not yet a key.
addState(m, id, obj) ==
    IF id \in DOMAIN m.mStates
    THEN m
    ELSE [m EXCEPT !.mStates = [k \in DOMAIN m.mStates \cup {id} |->
                                  IF k = id THEN obj ELSE m.mStates[k]]]

\* ---- the host's calls ----
Here == Machine(mStates, mCurrentState, mPreviousState)

\* The record of a call: what was called, with what, from which state,
\* what it returned and the callbacks it fired, in order.
CallRecord(op, id, m) ==
    [op |-> op, id |-> id, ret |-> m.ret, events |-> m.events, seen |-> m.seen,
     preStates |-> mStates, preCur |-> mCurrentState, prePrev |-> mPreviousState]

NoCall ==
    [op |-> "none", id |-> 0, ret |-> "void", events |-> <<>>, seen |-> <<>>,
     preStates |-> <<>>, preCur |-> NullRef, prePrev |-> NullRef]

Brief(c) == [op |-> c.op, id |-> c.id, ret |-> c.ret, events |-> c.events]

Commit(op, id, m) ==
    /\ mStates' = m.mStates
    /\ mCurrentState' = m.cur
    /\ mPreviousState' = m.prev
    /\ aborted' = m.aborted
    /\ last' = CallRecord(op, id, m)
    /\ prior' = Brief(last)
    /\ onlyAdds' = (onlyAdds /\ op = "addState")
    /\ UNCHANGED concVars

AddState(id) ==
    /\ ~ aborted
    /\ id \in DOMAIN mStates \/ nextObj <= MaxObjs
    /\ Commit("addState", id, addState(Here, id, nextObj))
    /\ nextObj' = IF id \in DOMAIN mStates THEN nextObj ELSE nextObj + 1

RemoveState(id) ==
    /\ ~ aborted
    /\ Commit("removeState", id, removeState(Here, id))
    /\ UNCHANGED nextObj

TransitionTo(id) ==
    /\ ~ aborted
    /\ Commit("transitionTo", id, transitionTo(Here, id))
    /\ UNCHANGED nextObj

TransitionToPreviousState ==
    /\ ~ aborted
    /\ Commit("transitionToPreviousState", 0, transitionToPreviousState(Here))
    /\ UNCHANGED nextObj

Update(x) ==
    /\ ~ aborted
    /\ Commit("update", x, update(Here, x))
    /\ UNCHANGED nextObj

SetCurrentState(id) ==
    /\ ~ aborted
    /\ Commit("setCurrentState", id, setCurrentState(Here, id))
    /\ UNCHANGED nextObj

Init ==
    /\ mStates = <<>>
    /\ mCurrentState = NullRef
    /\ mPreviousState = NullRef
    /\ nextObj = 1
    /\ aborted = FALSE
    /\ last = NoCall
    /\ prior = Brief(NoCall)
    /\ onlyAdds = TRUE
    /\ pcT = "idle" /\ tid = 0 /\ tFound = NullRef
    /\ pcR = "idle" /\ rid = 0 /\ rFound = NullRef /\ rRet = "none"
    /\ erasedUnder = FALSE

Next ==
    \/ \E id \in Ids : AddState(id)
    \/ \E id \in Ids : RemoveState(id)
    \/ \E id \in Ids : TransitionTo(id)
    \/ TransitionToPreviousState
    \/ \E x \in Data : Update(x)
    \/ \E id \in Ids : SetCurrentState(id)

Spec == Init /\ [][Next]_vars

\* ---- two threads on one FSM, no synchronisation ----
\* The outcomes of a virtual call through the state pointer of ref: a null
\* pointer crashes, a pointer to a destroyed state crashes or goes on.
CallThrough(ref) ==
    IF ref.state = 0 THEN {"crash"}
    ELSE IF Dangling(mStates, ref) THEN {"crash", "ok"}
    ELSE {"ok"}

\* What dereferencing the iterator it yields: the entry, or, when the node
\* was erased and freed meanwhile, the key address with the stale state
\* pointer or with the null the destroyed unique_ptr left behind.
Deref(it) ==
    IF Dangling(mStates, it)
    THEN {it, [id |-> it.id, state |-> 0]}
    ELSE {it}

Crash ==
    /\ aborted' = TRUE
    /\ UNCHANGED <<mStates, mCurrentState, mPreviousState, hostVars, concVars>>

\* -- transitionTo(tid) --
\* lines 88-90: found = mStates.find(id); assert(found != mStates.end())
T_Find ==
    /\ ~ aborted /\ pcT = "t88"
    /\ IF tid \in DOMAIN mStates
       THEN /\ tFound' = RefTo(mStates, tid)
            /\ pcT' = "t92"
            /\ UNCHANGED aborted
       ELSE /\ aborted' = TRUE
            /\ UNCHANGED <<tFound, pcT>>
    /\ UNCHANGED <<mStates, mCurrentState, mPreviousState, hostVars,
                   tid, pcR, rid, rFound, rRet, erasedUnder>>

\* line 92: if (mCurrentState.isSet())
T_Test ==
    /\ ~ aborted /\ pcT = "t92"
    /\ pcT' = IF isSet(mCurrentState) THEN "t93" ELSE "t97"
    /\ UNCHANGED <<mStates, mCurrentState, mPreviousState, aborted, hostVars,
                   tid, tFound, pcR, rid, rFound, rRet, erasedUnder>>

\* line 93: mCurrentState.state->onExit()
T_Exit ==
    /\ ~ aborted /\ pcT = "t93"
    /\ \E out \in CallThrough(mCurrentState) :
          IF out = "crash"
          THEN Crash
          ELSE /\ pcT' = "t94"
               /\ UNCHANGED <<mStates, mCurrentState, mPreviousState, aborted,
                              hostVars, tid, tFound, pcR, rid, rFound, rRet,
                              erasedUnder>>

\* line 94: mPreviousState = mCurrentState
T_CopyPrevious ==
    /\ ~ aborted /\ pcT = "t94"
    /\ mPreviousState' = mCurrentState
    /\ pcT' = "t97"
    /\ UNCHANGED <<mStates, mCurrentState, aborted, hostVars,
                   tid, tFound, pcR, rid, rFound, rRet, erasedUnder>>

\* T_Assign that looks the identifier up again and gives up when the entry
\* is gone.
T_Assign_FindAgain ==
    /\ ~ aborted /\ pcT = "t97"
    /\ IF tid \in DOMAIN mStates
       THEN mCurrentState' = RefTo(mStates, tid)
       ELSE UNCHANGED mCurrentState
    /\ pcT' = "t98"
    /\ UNCHANGED <<mStates, mPreviousState, aborted, hostVars,
                   tid, tFound, pcR, rid, rFound, rRet, erasedUnder>>

\* line 97: mCurrentState = {&(found->first), found->second.get()}
T_Assign ==
    /\ ~ aborted /\ pcT = "t97"
    /\ mCurrentState' \in Deref(tFound)
    /\ pcT' = "t98"
    /\ UNCHANGED <<mStates, mPreviousState, aborted, hostVars,
                   tid, tFound, pcR, rid, rFound, rRet, erasedUnder>>

\* line 98: mCurrentState.state->onEnter()
T_Enter ==
    /\ ~ aborted /\ pcT = "t98"
    /\ \E out \in CallThrough(mCurrentState) :
          IF out = "crash"
          THEN Crash
          ELSE /\ pcT' = "done"
               /\ UNCHANGED <<mStates, mCurrentState, mPreviousState, aborted,
                              hostVars, tid, tFound, pcR, rid, rFound, rRet,
                              erasedUnder>>

\* -- removeState(rid) --
\* A step of removeState that only moves to another statement.
R_Goto(from, to) ==
    /\ ~ aborted /\ pcR = from
    /\ pcR' = to
    /\ UNCHANGED <<mStates, mCurrentState, mPreviousState, aborted, hostVars,
                   pcT, tid, tFound, rid, rFound, rRet, erasedUnder>>

\* A step of removeState that writes the two slots.
R_Write(from, to, cur, prev) ==
    /\ ~ aborted /\ pcR = from
    /\ mCurrentState' = cur
    /\ mPreviousState' = prev
    /\ pcR' = to
    /\ UNCHANGED <<mStates, aborted, hostVars,
                   pcT, tid, tFound, rid, rFound, rRet, erasedUnder>>

\* A step of removeState that calls a callback through ref.
R_Call(from, to, ref) ==
    /\ ~ aborted /\ pcR = from
    /\ \E out \in CallThrough(ref) :
          IF out = "crash"
          THEN Crash
          ELSE /\ pcR' = to
               /\ UNCHANGED <<mStates, mCurrentState, mPreviousState, aborted,
                              hostVars, pcT, tid, tFound, rid, rFound, rRet,
                              erasedUnder>>

\* line 57: if (mCurrentState.isSet() && (currentStateId() == id))
R_TestCurrent ==
    R_Goto("r57", IF isSet(mCurrentState) /\ mCurrentState.id = rid
                  THEN "r58" ELSE "r70")

\* line 58: if (mPreviousState.isSet())
R_TestPrevious ==
    R_Goto("r58", IF isSet(mPreviousState) THEN "r59" ELSE "r68")

\* line 59: if (mCurrentState.id == mPreviousState.id)
R_TestSame ==
    R_Goto("r59", IF mCurrentState.id = mPreviousState.id
                     /\ mCurrentState.state = mPreviousState.state
                  THEN "r60" ELSE "r64")

\* line 60: mCurrentState.state->onExit()
R_ExitSame == R_Call("r60", "r61", mCurrentState)

\* line 61: mCurrentState.clear()
R_ClearCurrentSame == R_Write("r61", "r62", NullRef, mPreviousState)

\* line 62: mPreviousState.clear()
R_ClearPreviousSame == R_Write("r62", "r74", mCurrentState, NullRef)

\* line 64, into transitionToPreviousState (107-109) and transitionTo
\* (88-90): both asserts and the find
R_PrevFind ==
    /\ ~ aborted /\ pcR = "r64"
    /\ IF isSet(mPreviousState) /\ mPreviousState.id \in DOMAIN mStates
       THEN /\ rFound' = RefTo(mStates, mPreviousState.id)
            /\ pcR' = "r64_92"
            /\ UNCHANGED aborted
       ELSE /\ aborted' = TRUE
            /\ UNCHANGED <<rFound, pcR>>
    /\ UNCHANGED <<mStates, mCurrentState, mPreviousState, hostVars,
                   pcT, tid, tFound, rid, rRet, erasedUnder>>

\* line 64, transitionTo line 92
R_PrevTest ==
    R_Goto("r64_92", IF isSet(mCurrentState) THEN "r64_93" ELSE "r64_97")

\* line 64, transitionTo line 93
R_PrevExit == R_Call("r64_93", "r64_94", mCurrentState)

\* line 64, transitionTo line 94
R_PrevCopyPrevious == R_Write("r64_94", "r64_97", mCurrentState, mCurrentState)

\* line 64, transitionTo line 97
R_PrevAssign ==
    /\ ~ aborted /\ pcR = "r64_97"
    /\ mCurrentState' \in Deref(rFound)
    /\ pcR' = "r64_98"
    /\ UNCHANGED <<mStates, mPreviousState, aborted, hostVars,
                   pcT, tid, tFound, rid, rFound, rRet, erasedUnder>>

\* line 64, transitionTo line 98
R_PrevEnter == R_Call("r64_98", "r65", mCurrentState)

\* line 65: mPreviousState = mCurrentState
R_Dedup == R_Write("r65", "r74", mCurrentState, mCurrentState)

\* line 68: mCurrentState.clear()
R_ClearCurrent == R_Write("r68", "r74", NullRef, mPreviousState)

\* line 70: else if (mPreviousState.isSet() && (previousStateId() == id))
R_TestIsPrevious ==
    R_Goto("r70", IF isSet(mPreviousState) /\ mPreviousState.id = rid
                  THEN "r71" ELSE "r74")

\* line 71: mPreviousState.clear()
R_ClearPrevious == R_Write("r71", "r74", mCurrentState, NullRef)

\* line 74: return mStates.erase(id) > 0
R_Erase ==
    /\ ~ aborted /\ pcR = "r74"
    /\ mStates' = [k \in DOMAIN mStates \ {rid} |-> mStates[k]]
    /\ rRet' = IF rid \in DOMAIN mStates THEN "true" ELSE "false"
    /\ erasedUnder' = (\/ erasedUnder
                       \/ /\ rid \in DOMAIN mStates
                          /\ rid = tid
                          /\ pcT \in {"t92", "t93", "t94", "t97"})
    /\ pcR' = "done"
    /\ UNCHANGED <<mCurrentState, mPreviousState, aborted, hostVars,
                   pcT, tid, tFound, rid, rFound>>

\* The FSM holds a state for every identifier; the slots are in any of the
\* combinations the sequential operations can produce; each thread is about
\* to make its call.
InitConc ==
    /\ mStates = [k \in Ids |-> k]
    /\ mCurrentState \in {NullRef} \cup {RefTo(mStates, k) : k \in Ids}
    /\ mPreviousState \in {NullRef} \cup {RefTo(mStates, k) : k \in Ids}
    /\ isSet(mPreviousState) => isSet(mCurrentState)
    /\ nextObj = NumIds + 1
    /\ aborted = FALSE
    /\ last = NoCall
    /\ prior = Brief(NoCall)
    /\ onlyAdds = FALSE
    /\ pcT = "t88" /\ tid \in Ids /\ tFound = NullRef
    /\ pcR = "r57" /\ rid \in Ids /\ rFound = NullRef /\ rRet = "none"
    /\ erasedUnder = FALSE

NextConc ==
    \/ T_Find
    \/ T_Test
    \/ T_Exit
    \/ T_CopyPrevious
    \/ T_Assign
    \/ T_Enter
    \/ R_TestCurrent
    \/ R_TestPrevious
    \/ R_TestSame
    \/ R_ExitSame
    \/ R_ClearCurrentSame
    \/ R_ClearPreviousSame
    \/ R_PrevFind
    \/ R_PrevTest
    \/ R_PrevExit
    \/ R_PrevCopyPrevious
    \/ R_PrevAssign
    \/ R_PrevEnter
    \/ R_Dedup
    \/ R_ClearCurrent
    \/ R_TestIsPrevious
    \/ R_ClearPrevious
    \/ R_Erase

SpecConc == InitConc /\ [][NextConc]_vars

\* ---- vocabulary of the properties ----
\* The callback record of onEnter / onExit on object obj.
Ev(name, obj) == [cb |-> name, obj |-> obj, arg |-> 0]

\* The last call was op and it returned (no assertion failed).
Returned(op) == last.op = op /\ last.ret # "abort"

\* The entry of key id as it was before the last call.
PreRef(id) == RefTo(last.preStates, id)

\* ---- C1 ----
\* C1: in every state reached by calls of addState, removeState,
\* setCurrentState, transitionTo, transitionToPreviousState and update, the
\* current slot and the previous slot are each empty or refer to an entry
\* that is in the store at that moment.
C1_SlotsNeverDangle ==
    /\ ~ Dangling(mStates, mCurrentState)
    /\ ~ Dangling(mStates, mPreviousState)

\* An entry that a slot referred to has just been removed.
C1_Witness ==
    /\ Returned("removeState")
    /\ last.ret = "true"
    /\ \/ last.preCur = PreRef(last.id)
       \/ last.prePrev = PreRef(last.id)

\* ---- C2 ----
\* C2: for registered A # B, after setCurrentState(A) followed by
\* transitionTo(B) the two calls together have fired exactly onExit on A and
\* then onEnter on B, and nothing else; current is B and previous is A.
C2_SetThenTransition ==
    (/\ Returned("transitionTo")
     /\ prior.op = "setCurrentState" /\ prior.ret # "abort"
     /\ prior.id # last.id)
    => /\ prior.events \o last.events =
            << Ev("onExit", last.preStates[prior.id]),
               Ev("onEnter", last.preStates[last.id]) >>
       /\ mCurrentState = RefTo(mStates, last.id)
       /\ mPreviousState = RefTo(mStates, prior.id)

C2_Witness ==
    /\ Returned("transitionTo")
    /\ prior.op = "setCurrentState" /\ prior.ret # "abort"
    /\ prior.id # last.id
    /\ mCurrentState.id = last.id
    /\ mPreviousState.id = prior.id

\* ---- C3 ----
\* C3: transitionTo(A) while A is current fires onExit on A and then
\* onEnter on A, once each, and leaves previous and current both at A.
C3_SelfTransition ==
    (/\ Returned("transitionTo")
     /\ isSet(last.preCur) /\ last.preCur.id = last.id)
    => /\ last.events = << Ev("onExit", last.preCur.state),
                           Ev("onEnter", last.preCur.state) >>
       /\ mCurrentState = last.preCur
       /\ mPreviousState = last.preCur

C3_Witness ==
    /\ Returned("transitionTo")
    /\ isSet(last.preCur) /\ last.preCur.id = last.id
    /\ Len(last.events) = 2
    /\ mPreviousState = mCurrentState

\* ---- C4 ----
\* C4: with current = A and previous = B, A # B, removeState(A) fires onExit
\* on A and then onEnter on B, leaves current and previous both at B,
\* returns true and A is no longer in the store.
C4_RemoveCurrentPromotesPrevious ==
    (/\ Returned("removeState")
     /\ isSet(last.preCur) /\ last.preCur.id = last.id
     /\ isSet(last.prePrev) /\ last.prePrev.id # last.id)
    => /\ last.events = << Ev("onExit", last.preCur.state),
                           Ev("onEnter", last.prePrev.state) >>
       /\ mCurrentState = last.prePrev
       /\ mPreviousState = last.prePrev
       /\ last.ret = "true"
       /\ last.id \notin DOMAIN mStates

C4_Witness ==
    /\ Returned("removeState")
    /\ isSet(last.preCur) /\ last.preCur.id = last.id
    /\ isSet(last.prePrev) /\ last.prePrev.id # last.id
    /\ mCurrentState = last.prePrev
    /\ last.id \notin DOMAIN mStates

\* ---- C5 ----
\* C5: with current and previous both at the entry A, removeState(A) fires
\* onExit on A exactly once and no onEnter, clears both slots and removes A
\* from the store.
C5_RemoveCurrentEqualPrevious ==
    (/\ Returned("removeState")
     /\ isSet(last.preCur) /\ last.preCur.id = last.id
     /\ last.prePrev = last.preCur)
    => /\ last.events = << Ev("onExit", last.preCur.state) >>
       /\ mCurrentState = NullRef
       /\ mPreviousState = NullRef
       /\ last.id \notin DOMAIN mStates

C5_Witness ==
    /\ Returned("removeState")
    /\ isSet(last.preCur) /\ last.preCur.id = last.id
    /\ last.prePrev = last.preCur
    /\ ~ isSet(mCurrentState)
    /\ last.id \notin DOMAIN mStates

\* ---- C6 ----
\* C6: with current = A and the previous slot empty, removeState(A) invokes
\* onExit on A exactly once and no onEnter, clears the current slot, leaves
\* previous empty and removes A from the store.
C6_RemoveCurrentNoPrevious ==
    (/\ Returned("removeState")
     /\ isSet(last.preCur) /\ last.preCur.id = last.id
     /\ ~ isSet(last.prePrev))
    => /\ last.events = << Ev("onExit", last.preCur.state) >>
       /\ mCurrentState = NullRef
       /\ mPreviousState = NullRef
       /\ last.id \notin DOMAIN mStates

\* ---- C7 ----
\* C7: with previous = P and current = C, C # P, removeState(P) clears only
\* the previous slot: current still refers to C, no callback fires and P is
\* removed from the store.
C7_RemovePreviousOnly ==
    (/\ Returned("removeState")
     /\ isSet(last.prePrev) /\ last.prePrev.id = last.id
     /\ isSet(last.preCur) /\ last.preCur.id # last.id)
    => /\ mPreviousState = NullRef
       /\ mCurrentState = last.preCur
       /\ last.events = <<>>
       /\ last.id \notin DOMAIN mStates

C7_Witness ==
    /\ Returned("removeState")
    /\ isSet(last.prePrev) /\ last.prePrev.id = last.id
    /\ isSet(last.preCur) /\ last.preCur.id # last.id
    /\ isSet(mCurrentState)
    /\ ~ isSet(mPreviousState)

\* ---- C8 ----
\* C8: removeState(id) returns true exactly when id was in the store before
\* the call; then the store has one entry less and id is absent.  When id
\* was not in the store it returns false, the store, the current slot and
\* the previous slot are as before and no callback fired.
C8_RemoveReturn ==
    Returned("removeState")
    => /\ last.ret = "true" <=> last.id \in DOMAIN last.preStates
       /\ last.id \in DOMAIN last.preStates
            => /\ Cardinality(DOMAIN mStates)
                    = Cardinality(DOMAIN last.preStates) - 1
               /\ last.id \notin DOMAIN mStates
       /\ last.id \notin DOMAIN last.preStates
            => /\ last.ret = "false"
               /\ Cardinality(DOMAIN mStates) = Cardinality(DOMAIN last.preStates)
               /\ mCurrentState = last.preCur
               /\ mPreviousState = last.prePrev
               /\ last.events = <<>>

\* The same identifier removed twice in a row, with a current state set:
\* the first call found it, the second did not.
C8_Witness ==
    /\ Returned("removeState") /\ last.ret = "false"
    /\ prior.op = "removeState" /\ prior.id = last.id /\ prior.ret = "true"
    /\ isSet(mCurrentState)

\* ---- C9 ----
\* C9: addState with an identifier that is already in the store changes
\* nothing: the store has the same entries with the same state objects, the
\* slots are as before and no callback fired.
C9_AddExistingIsNoOp ==
    (last.op = "addState" /\ last.id \in DOMAIN last.preStates)
    => /\ mStates = last.preStates
       /\ mCurrentState = last.preCur
       /\ mPreviousState = last.prePrev
       /\ last.events = <<>>

C9_Witness ==
    /\ last.op = "addState" /\ last.id \in DOMAIN last.preStates
    /\ prior.op = "addState" /\ prior.id = last.id
    /\ Cardinality(DOMAIN mStates) >= 2

\* ---- C10 ----
\* C10: setCurrentState(id) with id registered fires no callback; previous
\* becomes the old current when there was one and is otherwise as before;
\* current becomes the entry of id.
C10_SetCurrentSilent ==
    Returned("setCurrentState")
    => /\ last.events = <<>>
       /\ mPreviousState = IF isSet(last.preCur) THEN last.preCur
                                                 ELSE last.prePrev
       /\ mCurrentState = RefTo(mStates, last.id)
       /\ mStates = last.preStates

C10_Witness ==
    /\ Returned("setCurrentState")
    /\ isSet(last.preCur) /\ last.preCur.id # last.id
    /\ isSet(last.prePrev) /\ last.prePrev # last.preCur
    /\ mPreviousState = last.preCur

\* ---- C11 ----
\* C11: transitionTo(id) and setCurrentState(id) with an identifier that is
\* not in the store return a failure result and change nothing: the store,
\* the current slot and the previous slot are as before and no callback
\* fired.
C11_UnknownIdIsNoOp ==
    (/\ last.op \in {"transitionTo", "setCurrentState"}
     /\ last.id \notin DOMAIN last.preStates)
    => /\ ~ aborted
       /\ last.ret = "false"
       /\ mStates = last.preStates
       /\ mCurrentState = last.preCur
       /\ mPreviousState = last.prePrev
       /\ last.events = <<>>

\* ---- C12 ----
\* C12: with current = C and previous = P, C # P, transitionToPreviousState()
\* swaps the slots: current = P and previous = C afterwards, and the call
\* fired exactly onExit on C followed by onEnter on P.
C12_TransitionToPreviousSwaps ==
    (/\ Returned("transitionToPreviousState")
     /\ isSet(last.preCur) /\ isSet(last.prePrev)
     /\ last.preCur # last.prePrev)
    => /\ mCurrentState = last.prePrev
       /\ mPreviousState = last.preCur
       /\ last.events = << Ev("onExit", last.preCur.state),
                           Ev("onEnter", last.prePrev.state) >>

C12_Witness ==
    /\ Returned("transitionToPreviousState")
    /\ isSet(last.preCur) /\ isSet(last.prePrev)
    /\ last.preCur.id # last.prePrev.id
    /\ mCurrentState.id = last.prePrev.id
    /\ Len(last.events) = 2

\* ---- C13 ----
\* C13: transitionToPreviousState() called while the previous slot is empty
\* returns a failure result and changes nothing: current and previous are as
\* before and no callback fired.
C13_NoPreviousIsNoOp ==
    (/\ last.op = "transitionToPreviousState"
     /\ ~ isSet(last.prePrev))
    => /\ ~ aborted
       /\ last.ret = "false"
       /\ mCurrentState = last.preCur
       /\ mPreviousState = last.prePrev
       /\ last.events = <<>>

\* ---- C14 ----
\* C14: with current = S, update(x) invokes update on S exactly once, with
\* the payload x, invokes nothing on any other state, and leaves the store,
\* the current slot and the previous slot as they were.
C14_UpdateForwards ==
    (Returned("update") /\ isSet(last.preCur))
    => /\ last.events =
            << [cb |-> "update", obj |-> last.preCur.state, arg |-> last.id] >>
       /\ mStates = last.preStates
       /\ mCurrentState = last.preCur
       /\ mPreviousState = last.prePrev

\* update was called while a previous state other than the current one was
\* set.
C14_Witness ==
    /\ Returned("update") /\ isSet(last.preCur)
    /\ isSet(last.prePrev) /\ last.prePrev # last.preCur
    /\ Len(last.events) = 1
    /\ last.id = MaxData

\* ---- C15 ----
\* C15: update(x) called while the current slot is empty is ignored: the
\* call returns, no update hook was invoked and the store and both slots are
\* as before.
C15_UpdateWithoutCurrentIsNoOp ==
    (last.op = "update" /\ ~ isSet(last.preCur))
    => /\ ~ aborted
       /\ last.events = <<>>
       /\ mStates = last.preStates
       /\ mCurrentState = last.preCur
       /\ mPreviousState = last.prePrev

\* ---- C16 ----
\* C16: a newly constructed FSM has both slots empty, and as long as only
\* addState has been called both slots stay empty and no call fired a
\* callback.
C16_AddingImpliesNoInitialState ==
    onlyAdds
    => /\ mCurrentState = NullRef
       /\ mPreviousState = NullRef
       /\ last.events = <<>>
       /\ prior.events = <<>>

\* Only addState was called, at least twice, and the store is not empty.
C16_Witness ==
    /\ onlyAdds
    /\ last.op = "addState" /\ prior.op = "addState"
    /\ Cardinality(DOMAIN mStates) >= 2
    /\ ~ isSet(mCurrentState)

\* ---- C17 ----
\* C17: in every reachable state the FSM is Uninitialized (both slots
\* empty), Initialized (current set, previous empty) or Running (both set);
\* `previous set while current is empty' is never reached, removals
\* included.
C17_ThreeModes ==
    isSet(mPreviousState) => isSet(mCurrentState)

\* The current state has just been removed while a previous state was set.
C17_Witness ==
    /\ Returned("removeState") /\ last.ret = "true"
    /\ isSet(last.preCur) /\ last.preCur.id = last.id
    /\ isSet(last.prePrev)

\* ---- C18 ----
\* The onEnter callbacks among the callbacks of the last call.
EntersOfLast == SelectSeq(last.events, LAMBDA e : e.cb = "onEnter")

\* C18 (as claimed): removeState never invokes onEnter on any state,
\* whichever branch it takes.
C18_RemoveNeverEnters ==
    last.op = "removeState" => EntersOfLast = <<>>

\* C18 (amended): removeState invokes onEnter in exactly one branch: when
\* the removed entry is current and the previous slot refers to another
\* entry, onEnter is invoked once, on that previous state; in every other
\* branch no onEnter is invoked.
C18_RemoveEntersOnlyPromotedPrevious ==
    Returned("removeState")
    => EntersOfLast =
         IF /\ isSet(last.preCur) /\ last.preCur.id = last.id
            /\ isSet(last.prePrev) /\ last.prePrev # last.preCur
         THEN << Ev("onEnter", last.prePrev.state) >>
         ELSE <<>>

C18_Witness ==
    /\ Returned("removeState")
    /\ Len(EntersOfLast) = 1
    /\ EntersOfLast[1].obj = mCurrentState.state
    /\ last.id \notin DOMAIN mStates

\* ---- C19 ----
\* C19: transitionTo(id) with id registered works in strict order: when
\* onExit runs on the old current state the current slot still refers to
\* it; when onEnter runs on the new state the current slot already refers
\* to the new state and the previous slot already refers to the old current
\* state (when there was one).
C19_TransitionOrder ==
    Returned("transitionTo")
    => LET n == Len(last.events) IN
       /\ n = IF isSet(last.preCur) THEN 2 ELSE 1
       /\ isSet(last.preCur)
            => /\ last.events[1] = Ev("onExit", last.preCur.state)
               /\ last.seen[1].cur = last.preCur
               /\ last.seen[n].prev = last.preCur
       /\ last.events[n] = Ev("onEnter", last.preStates[last.id])
       /\ last.seen[n].cur = PreRef(last.id)

C19_Witness ==
    /\ Returned("transitionTo")
    /\ isSet(last.preCur) /\ last.preCur.id # last.id
    /\ Len(last.seen) = 2
    /\ last.seen[1].cur # last.seen[2].cur

\* ---- C20 ----
\* The positions of the onExit callbacks among the callbacks of the last
\* call.
ExitsOfLast == {i \in 1..Len(last.events) : last.events[i].cb = "onExit"}

\* C20: onExit is invoked only on the state that is in the current slot at
\* that moment and only by transitionTo, transitionToPreviousState or
\* removeState; no call invokes onExit more than once; and every call of
\* these three that makes a set current state stop being current, or
\* re-enter itself, invokes onExit on it.
C20_ExitOncePerDeactivation ==
    /\ \A i \in ExitsOfLast :
          /\ isSet(last.seen[i].cur)
          /\ last.events[i].obj = last.seen[i].cur.state
          /\ last.op \in {"transitionTo", "transitionToPreviousState",
                          "removeState"}
    /\ Cardinality(ExitsOfLast) <= 1
    /\ (/\ last.ret # "abort"
        /\ isSet(last.preCur)
        /\ \/ last.op \in {"transitionTo", "transitionToPreviousState"}
           \/ last.op = "removeState" /\ last.preCur.id = last.id)
       => \E i \in ExitsOfLast : last.events[i].obj = last.preCur.state

\* ---- C21 ----
\* C21: transitionTo(id) with id registered, called while the current slot
\* is empty, fires no onExit, fires onEnter on id exactly once, sets current
\* to id and leaves the previous slot empty.
C21_FirstTransition ==
    (Returned("transitionTo") /\ ~ isSet(last.preCur))
    => /\ last.events = << Ev("onEnter", last.preStates[last.id]) >>
       /\ mCurrentState = RefTo(mStates, last.id)
       /\ mPreviousState = NullRef

C21_Witness ==
    /\ Returned("transitionTo") /\ ~ isSet(last.preCur)
    /\ isSet(mCurrentState) /\ mCurrentState.id = last.id
    /\ ~ isSet(mPreviousState)

\* ---- C22 ----
\* How a call treated an identifier that is not in the store.
Ignored(c) == c.ret = "false"
FailedFast(c) == c.ret = "abort"

\* C22: transitionTo, setCurrentState and removeState follow one policy for
\* an unknown identifier: when one of them has ignored an unknown identifier
\* and returned, the next call of any of them with an unknown identifier is
\* ignored too, and does not fail fast.
C22_OneAbsentIdPolicy ==
    (/\ prior.op \in {"transitionTo", "setCurrentState", "removeState"}
     /\ Ignored(prior)
     /\ last.op \in {"transitionTo", "setCurrentState", "removeState"}
     /\ last.id \notin DOMAIN last.preStates)
    => (Ignored(last) /\ ~ FailedFast(last))

\* ---- C23 ----
\* C23: transitionTo, transitionToPreviousState, setCurrentState and update
\* never change the store: the registered identifiers, their state objects
\* and size() are the same after the call as before it.
C23_StoreFrame ==
    last.op \in {"transitionTo", "transitionToPreviousState",
                 "setCurrentState", "update"}
    => /\ mStates = last.preStates
       /\ Cardinality(DOMAIN mStates) = Cardinality(DOMAIN last.preStates)

\* Two of these calls in a row on a store with two entries, the second one
\* moving the current slot.
C23_Witness ==
    /\ last.op \in {"transitionTo", "transitionToPreviousState", "setCurrentState"}
    /\ prior.op \in {"transitionTo", "setCurrentState", "update"}
    /\ last.ret # "abort"
    /\ mCurrentState # last.preCur
    /\ Cardinality(DOMAIN mStates) = 2

\* ---- C24 ----
\* C24: transitionTo and removeState are not atomic.  When removeState(id)
\* erases the entry after transitionTo(id) has looked it up (line 88) and
\* before transitionTo has assigned the current slot (line 97), then from
\* that assignment on the current slot refers to an entry that has been
\* removed from the store.
C24_InterleavingLeavesDanglingSlot ==
    (erasedUnder /\ pcT \in {"t98", "done"})
    => Dangling(mStates, mCurrentState)

\* The entry was erased between the lookup and the assignment, both calls
\* have returned, nothing crashed, and the current slot refers to the entry
\* that removeState removed.
C24_Witness ==
    /\ erasedUnder
    /\ pcT = "done" /\ pcR = "done" /\ ~ aborted
    /\ rRet = "true" /\ rid = tid
    /\ mCurrentState.id = rid
    /\ Dangling(mStates, mCurrentState)

====
